---- MODULE Spec2Model ----
(***************************************************************************)
(* Model of run.py: the metadata scraper extract_case_data and the main    *)
(* loop that drives the case request form once per unseen link and keeps   *)
(* output.csv as the durable record of confirmed requests.                 *)
(***************************************************************************)
EXTENDS Integers, Sequences, FiniteSets, TLC

\* ---------------------------------------------------------------- bounds
MaxRuns == 2
MaxLen == 2
MaxRetriesBound == 4
MaxChunks == 3

\* ------------------------------------------------------------- constants
\* extract_case_data(url, max_retries=3, delay=2)
DefaultMaxRetries == 3
DefaultDelay == 2

URLs == {"u1", "u2"}

\* texts the h1.beta element of a case page can have
TitleTexts == {"", " ", "Case A", "NA"}

\* texts of div.description-content and of h4.kappa
AbstractTexts == {" ", "Text"}
AuthorTexts == {"Doe"}

\* texts of div.mu.light.citation.add-underline, as sequences of characters:
\* with a case number, without one, with one inside a longer number
CitationTexts ==
    {<<"D", "o", "e", " ", "3", "2", "1", "-", "4", "5", "6", ".">>,
     <<"D", "o", "e", ".">>,
     <<"D", "o", "e", " ", "7", "3", "2", "1", "-", "4", "5", "6", ".">>}

\* texts of the first item of ul.linear.mu-uc.datesource
MonthYear == <<"M", "a", "r", " ", "2", "0", "1", "5">>
RevisedNote == <<"(", "R", "e", "v", "i", "s", "e", "d", " ", "J", "u", "n", " ", "2", "0", "1", "8", ")">>
SampleDateTexts ==
    {MonthYear,
     MonthYear \o <<" ">> \o RevisedNote,
     RevisedNote,
     <<"n", ".", "d", ".">>}

\* a case page: what select_one finds for each selector, <<>> when the
\* page has no such element, else the text of the element
FullPage ==
    [h1 |-> <<"Case A">>,
     citation |-> <<<<"D", "o", "e", " ", "3", "2", "1", "-", "4", "5", "6", ".">>>>,
     date_text |-> <<MonthYear \o <<" ">> \o RevisedNote>>,
     abstract |-> <<"Text">>,
     author |-> <<"Doe">>]

\* a page with nothing but a title element of text t
BarePage(t) ==
    [h1 |-> <<t>>, citation |-> <<>>, date_text |-> <<>>,
     abstract |-> <<>>, author |-> <<>>]

\* the pages of the URLs during the runs of the script: one full page, and
\* one bare page whose title holds only a blank or the text "NA"
SitePages ==
    {[u \in URLs |-> IF u = "u1" THEN FullPage ELSE BarePage(t)] :
        t \in {" ", "NA"}}

\* a missing cell as pandas holds it in memory: of a column of strings and
\* of a column of character sequences
NaN == "<NaN>"
NaNText == <<"<NaN>">>

\* the lists CASE_LINKS_TO_DOWNLOAD can be, duplicates allowed
RECURSIVE ListsOfLen(_)
ListsOfLen(n) ==
    IF n = 0 THEN {<<>>}
    ELSE {Append(l, u) : l \in ListsOfLen(n - 1), u \in URLs}

CASE_LINKS_TO_DOWNLOAD == UNION {ListsOfLen(n) : n \in 0..MaxLen}

VARIABLES
    pages,            \* the case page of each URL
    file,             \* output.csv on disk
    df_existing,      \* the in-memory table
    submitted_links,  \* URLs read from the file at start-up
    links,            \* CASE_LINKS_TO_DOWNLOAD of this run
    idx,              \* position of the for loop in links (1-based)
    pc,               \* position of the script
    max_retries,      \* parameter of the running extract_case_data call
    attempt,          \* loop variable of extract_case_data
    result,           \* return value of extract_case_data: <<>> is None
    step,             \* next form-driving statement of the try block
    conf,             \* what the confirmation check of this iteration saw
    ctx,              \* browsing context of the driver: "top" or "frame"
    session,          \* the webdriver session: "none", "open", "quit"
    run,              \* number of the current run
    \* ---- history variables
    fileAtStart,      \* the file as the run found it
    dfAtLoad,         \* the table as built at start-up
    outcome,          \* how each finished iteration of this run ended
    extracted,        \* positions of links extract_case_data was called for
    driven,           \* positions of links a form-driving call was made for
    dfAtIter,         \* the table when the current iteration began
    fileAtIter,       \* the file when the current iteration began
    attempts,         \* fetches made by the running extract_case_data call
    sleeps,           \* time.sleep(delay) calls made by that call
    lastFlushed,      \* rows of the last completed to_csv
    prevUnconfirmed,  \* URLs processed in the previous run, none confirmed
    prevFailed,       \* URLs with a failed processing in the previous run
                      \* (after a termination: in the run terminated)
    flushedAtKill,    \* URLs with a row flushed before the last termination
    ready,            \* how the wait for the form page ended: "pending"
                      \* before it, then "yes" or "no"
    path,             \* the stages the current iteration went through
    waited,           \* seconds slept by the running extract_case_data call
    fetched           \* what the last attempt of that call got

procVars == <<df_existing, submitted_links, links, idx, pc, max_retries,
              attempt, result, step, conf, ctx, session, run>>
histVars == <<fileAtStart, dfAtLoad, outcome, extracted, driven, dfAtIter,
              fileAtIter, attempts, sleeps, lastFlushed, prevUnconfirmed,
              prevFailed, flushedAtKill>>
traceVars == <<ready, path, waited, fetched>>
vars == <<pages, file, procVars, histVars, traceVars>>

\* ------------------------------------------------------------ the file
NoFile == [exists |-> FALSE, hdr |-> FALSE, rows |-> <<>>]
\* a file opened for writing and not yet written: zero bytes
EmptyFile == [exists |-> TRUE, hdr |-> FALSE, rows |-> <<>>]

\* cells pd.read_csv takes for a missing value (keep_default_na=True)
NaValues ==
    {"", "#N/A", "#N/A N/A", "#NA", "-1.#IND", "-1.#QNAN", "-NaN", "-nan",
     "1.#IND", "1.#QNAN", "<NA>", "N/A", "NA", "NULL", "NaN", "n/a", "nan",
     "null"}
\* those of them the character sequences of the model can spell
NaTexts == {<<>>}

\* one cell written by DataFrame.to_csv: a missing value is written empty
to_csv_cell(v) == IF v = NaN THEN "" ELSE v
to_csv_text(v) == IF v = NaNText THEN <<>> ELSE v

\* one cell parsed by pd.read_csv: a cell of NaValues is read as missing
read_csv_cell(c) == IF c \in NaValues THEN NaN ELSE c
read_csv_text(c) == IF c \in NaTexts THEN NaNText ELSE c

to_csv_row(r) ==
    [URL |-> to_csv_cell(r.URL),
     Case_Number |-> to_csv_text(r.Case_Number),
     Title |-> to_csv_cell(r.Title),
     Date |-> to_csv_text(r.Date),
     Updated |-> to_csv_text(r.Updated),
     Abstract |-> to_csv_cell(r.Abstract),
     Main_Author |-> to_csv_cell(r.Main_Author),
     Status |-> to_csv_cell(r.Status)]

read_csv_row(r) ==
    [URL |-> read_csv_cell(r.URL),
     Case_Number |-> read_csv_text(r.Case_Number),
     Title |-> read_csv_cell(r.Title),
     Date |-> read_csv_text(r.Date),
     Updated |-> read_csv_text(r.Updated),
     Abstract |-> read_csv_cell(r.Abstract),
     Main_Author |-> read_csv_cell(r.Main_Author),
     Status |-> read_csv_cell(r.Status)]

\* faulty variant of to_csv: only the newest row is written
to_csv_newest_only(df) ==
    [exists |-> TRUE, hdr |-> TRUE,
     rows |-> IF df = <<>> THEN <<>> ELSE <<to_csv_row(df[Len(df)])>>]

\* df_existing.to_csv(OUTPUT_FILE, index=False): the content written
to_csv(df) ==
    [exists |-> TRUE, hdr |-> TRUE,
     rows |-> [i \in 1..Len(df) |-> to_csv_row(df[i])]]

\* pd.read_csv(OUTPUT_FILE)
read_csv(f) == [i \in 1..Len(f.rows) |-> read_csv_row(f.rows[i])]

\* set(df_existing["URL"].tolist())
UrlSet(df) == {df[i].URL : i \in 1..Len(df)}

\* ------------------------------------------------------------ texts
\* a text the regular expressions are run on is a sequence of characters
Letters == {"M", "a", "r", "J", "u", "n", "R", "e", "v", "i", "s", "d", "x"}
Digits == {"0", "1", "2", "3", "4", "5", "6", "7", "8", "9"}

\* [A-Za-z]
IsLetter(c) == c \in Letters
\* \d
IsDigit(c) == c \in Digits
\* \w, the characters \b tells from the others
IsWordChar(c) == IsLetter(c) \/ IsDigit(c) \/ c = "_"

RECURSIVE LStrip(_)
LStrip(s) == IF s # <<>> /\ Head(s) = " " THEN LStrip(Tail(s)) ELSE s

RECURSIVE RStrip(_)
RStrip(s) ==
    IF s # <<>> /\ s[Len(s)] = " "
    THEN RStrip(SubSeq(s, 1, Len(s) - 1))
    ELSE s

\* str.strip() on a sequence of characters
StripText(s) == RStrip(LStrip(s))

\* the number of letters in a row that s has from position i on
RECURSIVE LetterRun(_, _)
LetterRun(s, i) ==
    IF i <= Len(s) /\ IsLetter(s[i]) THEN 1 + LetterRun(s, i + 1) ELSE 0

\* s has n digits from position i on
DigitsAt(s, i, n) ==
    /\ i + n - 1 <= Len(s)
    /\ \A j \in i..(i + n - 1) : IsDigit(s[j])

\* s has the characters of lit from position i on
LiteralAt(s, i, lit) ==
    /\ i + Len(lit) - 1 <= Len(s)
    /\ SubSeq(s, i, i + Len(lit) - 1) = lit

\* the length of the match of [A-Za-z]+ \d{4} at position i of s, 0 when
\* there is none. The letters matched are the whole run of letters at i:
\* what follows them has to be a blank, which a letter is not.
MonthYearAt(s, i) ==
    LET k == LetterRun(s, i)
    IN  IF /\ k >= 1
           /\ i + k <= Len(s)
           /\ s[i + k] = " "
           /\ DigitsAt(s, i + k + 1, 4)
        THEN k + 5
        ELSE 0

\* faulty variant of MatchPositions: re.search in place of re.match
MatchPositionsAnywhere(s) == 1..Len(s)

\* where re.match looks for the pattern: at the start of the string only
MatchPositions(s) == {1}

\* re.match(r"([A-Za-z]+ \d{4})", date_str): group(1), "" without a match
OriginalDate(s) ==
    IF \E i \in MatchPositions(s) : MonthYearAt(s, i) > 0
    THEN LET i == CHOOSE j \in MatchPositions(s) :
                      /\ MonthYearAt(s, j) > 0
                      /\ \A h \in MatchPositions(s) :
                            MonthYearAt(s, h) > 0 => j <= h
         IN  SubSeq(s, i, i + MonthYearAt(s, i) - 1)
    ELSE <<>>

RevisedOpen == <<"(", "R", "e", "v", "i", "s", "e", "d", " ">>

\* \(Revised ([A-Za-z]+ \d{4})\) matches at position i of s
RevisedAt(s, i) ==
    /\ LiteralAt(s, i, RevisedOpen)
    /\ MonthYearAt(s, i + Len(RevisedOpen)) > 0
    /\ LiteralAt(s, i + Len(RevisedOpen)
                      + MonthYearAt(s, i + Len(RevisedOpen)), <<")">>)

\* re.search(r"\(Revised ([A-Za-z]+ \d{4})\)", date_str): group(1) of the
\* leftmost match, "" without a match
UpdatedDate(s) ==
    IF \E i \in 1..Len(s) : RevisedAt(s, i)
    THEN LET i == CHOOSE j \in 1..Len(s) :
                      /\ RevisedAt(s, j)
                      /\ \A h \in 1..Len(s) : RevisedAt(s, h) => j <= h
             b == i + Len(RevisedOpen)
         IN  SubSeq(s, b, b + MonthYearAt(s, b) - 1)
    ELSE <<>>

\* \b(\d{3}-\d{3})\b matches at position i of s
CaseNumberAt(s, i) ==
    /\ i = 1 \/ ~IsWordChar(s[i - 1])
    /\ DigitsAt(s, i, 3)
    /\ LiteralAt(s, i + 3, <<"-">>)
    /\ DigitsAt(s, i + 4, 3)
    /\ i + 7 > Len(s) \/ ~IsWordChar(s[i + 7])

\* re.search(r"\b(\d{3}-\d{3})\b", citation.text): group(1) of the leftmost
\* match, "" without a match
CaseNumber(s) ==
    IF \E i \in 1..Len(s) : CaseNumberAt(s, i)
    THEN LET i == CHOOSE j \in 1..Len(s) :
                      /\ CaseNumberAt(s, j)
                      /\ \A h \in 1..Len(s) : CaseNumberAt(s, h) => j <= h
         IN  SubSeq(s, i, i + 6)
    ELSE <<>>

\* ------------------------------------------------- extract_case_data
\* a document in which select_one finds none of the elements
NoElements ==
    [h1 |-> <<>>, citation |-> <<>>, date_text |-> <<>>, abstract |-> <<>>,
     author |-> <<>>]

\* what one fetch and parse of url can give: an exception raised by
\* requests.get or BeautifulSoup, a document without the elements (the
\* page did not load), or the page of the URL
Responses(url) ==
    {[exc |-> TRUE, soup |-> NoElements],
     [exc |-> FALSE, soup |-> NoElements],
     [exc |-> FALSE, soup |-> pages[url]]}

\* str.strip() on the texts of TitleTexts, AbstractTexts and AuthorTexts
Strip(t) == IF t = " " THEN "" ELSE t

None == <<>>

\* faulty variant of AttemptFails: a page without a citation element is
\* taken for a page that did not load
AttemptFailsStrict(resp) ==
    resp.exc \/ resp.soup.h1 = <<>> \/ resp.soup.citation = <<>>

\* the attempt raises inside the try: the fetch or parse raised, or
\* select_one("h1.beta") returned None ("if not hbs_title"; a found Tag is
\* always true, whatever its text)
AttemptFails(resp) == resp.exc \/ resp.soup.h1 = <<>>

\* the dict returned by a successful attempt
MakeRecord(url, resp) ==
    LET citation == resp.soup.citation
        date_text == resp.soup.date_text
        abstract == resp.soup.abstract
        author == resp.soup.author
    IN  [URL |-> url,
         Case_Number |->
             IF citation # <<>> THEN CaseNumber(citation[1]) ELSE <<>>,
         Title |-> Strip(resp.soup.h1[1]),
         Date |->
             IF date_text # <<>>
             THEN OriginalDate(StripText(date_text[1]))
             ELSE <<>>,
         Updated |->
             IF date_text # <<>>
             THEN UpdatedDate(StripText(date_text[1]))
             ELSE <<>>,
         Abstract |-> IF abstract # <<>> THEN Strip(abstract[1]) ELSE "",
         Main_Author |-> IF author # <<>> THEN Strip(author[1]) ELSE ""]

\* what the attempt got: an exception, a document without h1.beta, or a
\* document with it
Fetched(resp) ==
    IF resp.exc THEN "exception"
    ELSE IF resp.soup.h1 = <<>> THEN "no_title"
    ELSE "page"

\* faulty variant of HasNextAttempt: range(1, max_retries + 2)
HasNextAttemptInclusive(a, m) == a <= m

\* for attempt in range(1, max_retries + 1): is there a next attempt
HasNextAttempt(a, m) == a < m

\* faulty variant of SleepTime: the wait grows with the attempt number
SleepTimeGrowing(a, d) == a * d

\* time.sleep(delay) after failed attempt a: the seconds slept
SleepTime(a, d) == d

\* one pass of the body of the for loop of extract_case_data
ExtractAttempt ==
    /\ UNCHANGED pages
    /\ pc = "extract"
    /\ \E resp \in Responses(links[idx]) :
         /\ attempts' = attempts + 1
         /\ fetched' = Fetched(resp)
         /\ IF AttemptFails(resp)
            THEN /\ sleeps' = sleeps + 1
                 /\ waited' = waited + SleepTime(attempt, DefaultDelay)
                 /\ IF HasNextAttempt(attempt, max_retries)
                    THEN /\ attempt' = attempt + 1
                         /\ UNCHANGED <<pc, result>>
                    ELSE /\ result' = None
                         /\ pc' = "returned"
                         /\ UNCHANGED attempt
            ELSE /\ result' = <<MakeRecord(links[idx], resp)>>
                 /\ pc' = "returned"
                 /\ UNCHANGED <<attempt, sleeps, waited>>
    /\ UNCHANGED <<ready, path>>
    /\ UNCHANGED <<file, df_existing, submitted_links, links, idx,
                   max_retries, step, conf, ctx, session, run>>
    /\ UNCHANGED <<dfAtIter, fileAtIter, fileAtStart, dfAtLoad, outcome,
                   extracted, driven, lastFlushed, prevUnconfirmed,
                   prevFailed, flushedAtKill>>

\* ------------------------------------------------------------ start-up
\* the state a fresh process starts in, given the file it finds
StartProcess(f, l, r) ==
    /\ file = f
    /\ links = l
    /\ run = r
    /\ df_existing = <<>>
    /\ submitted_links = {}
    /\ idx = 1
    /\ pc = "load"
    /\ max_retries = DefaultMaxRetries
    /\ attempt = 1
    /\ result = None
    /\ step = 1
    /\ conf = "none"
    /\ ctx = "top"
    /\ session = "none"
    /\ fileAtStart = f
    /\ dfAtLoad = <<>>
    /\ outcome = <<>>
    /\ extracted = {}
    /\ driven = {}
    /\ dfAtIter = <<>>
    /\ fileAtIter = f
    /\ attempts = 0
    /\ sleeps = 0
    /\ lastFlushed = f.rows
    /\ ready = "pending"
    /\ path = <<>>
    /\ waited = 0
    /\ fetched = "none"

Init ==
    /\ pages \in SitePages
    /\ \E l \in CASE_LINKS_TO_DOWNLOAD : StartProcess(NoFile, l, 1)
    /\ prevUnconfirmed = {}
    /\ prevFailed = {}
    /\ flushedAtKill = {}

\* LOAD PREVIOUS SUBMISSIONS
Load ==
    /\ UNCHANGED pages
    /\ UNCHANGED fetched
    /\ UNCHANGED <<ready, path, waited>>
    /\ pc = "load"
    /\ IF ~file.exists
       THEN /\ df_existing' = <<>>
            /\ submitted_links' = {}
            /\ pc' = "setup"
       ELSE IF ~file.hdr
       THEN \* pd.read_csv raises EmptyDataError on a file of zero bytes
            /\ pc' = "aborted"
            /\ UNCHANGED <<df_existing, submitted_links>>
       ELSE /\ df_existing' = read_csv(file)
            /\ submitted_links' = UrlSet(read_csv(file))
            /\ pc' = "setup"
    /\ dfAtLoad' = df_existing'
    /\ UNCHANGED <<file, links, idx, max_retries, attempt, result, step, conf,
                   ctx, session, run>>
    /\ UNCHANGED <<fileAtStart, outcome, extracted, driven, dfAtIter,
                   fileAtIter, attempts, sleeps, lastFlushed, prevUnconfirmed,
                   prevFailed, flushedAtKill>>

\* faulty variant of AfterWait: the timeout is swallowed
AfterWaitIgnored(seen) == "loop"

\* WebDriverWait(driver, 60).until(...): where the script goes on when the
\* text was seen, and when TimeoutException is raised, which nothing catches
AfterWait(seen) == IF seen THEN "loop" ELSE "aborted"

\* BROWSER SETUP: the session is created, then the 60 s wait for the form
\* page either sees "Case Request Form" or raises TimeoutException
Setup ==
    /\ UNCHANGED pages
    /\ UNCHANGED fetched
    /\ pc = "setup"
    /\ session' = "open"
    /\ \E seen \in BOOLEAN :
         /\ pc' = AfterWait(seen)
         /\ ready' = IF seen THEN "yes" ELSE "no"
    /\ UNCHANGED <<path, waited>>
    /\ UNCHANGED <<file, df_existing, submitted_links, links, idx,
                   max_retries, attempt, result, step, conf, ctx, run>>
    /\ UNCHANGED histVars

\* ----------------------------------------------------------- main loop
\* faulty variant of AlreadySubmitted: the membership test is lost
AlreadySubmittedNever(link) == FALSE

\* if link in submitted_links
AlreadySubmitted(link) == link \in submitted_links

\* the end of one iteration of the for loop, however it was reached
NextLink(kind) ==
    /\ outcome' = Append(outcome, kind)
    /\ idx' = idx + 1
    /\ pc' = "loop"
    /\ result' = None
    /\ attempt' = 1
    /\ step' = 1
    /\ conf' = "none"

\* for link in CASE_LINKS_TO_DOWNLOAD: a link already submitted is skipped
SkipLink ==
    /\ UNCHANGED pages
    /\ UNCHANGED fetched
    /\ path' = <<"Pending", "Skipped">>
    /\ UNCHANGED <<ready, waited>>
    /\ pc = "loop"
    /\ idx <= Len(links)
    /\ AlreadySubmitted(links[idx])
    /\ NextLink("skipped")
    /\ dfAtIter' = df_existing
    /\ fileAtIter' = file
    /\ UNCHANGED <<file, df_existing, submitted_links, links, max_retries,
                   ctx, session, run>>
    /\ UNCHANGED <<fileAtStart, dfAtLoad, extracted, driven, attempts, sleeps,
                   lastFlushed, prevUnconfirmed, prevFailed, flushedAtKill>>

\* metadata = extract_case_data(link): the call, with the default arguments
CallExtract ==
    /\ UNCHANGED pages
    /\ fetched' = "none"
    /\ path' = <<"Pending">>
    /\ waited' = 0
    /\ UNCHANGED ready
    /\ pc = "loop"
    /\ idx <= Len(links)
    /\ ~AlreadySubmitted(links[idx])
    /\ pc' = "extract"
    /\ max_retries' = DefaultMaxRetries
    /\ attempt' = 1
    /\ attempts' = 0
    /\ sleeps' = 0
    /\ extracted' = extracted \cup {idx}
    /\ dfAtIter' = df_existing
    /\ fileAtIter' = file
    /\ UNCHANGED <<file, df_existing, submitted_links, links, idx, result,
                   step, conf, ctx, session, run>>
    /\ UNCHANGED <<fileAtStart, dfAtLoad, outcome, driven, lastFlushed,
                   prevUnconfirmed, prevFailed, flushedAtKill>>

\* faulty variant of IsFailure: None is taken for a record
IsFailureNever(r) == FALSE

\* "not metadata": None is false, a dict with keys is true
IsFailure(r) == r = None

\* if not metadata: continue
ExtractFailed ==
    /\ UNCHANGED pages
    /\ fetched' = "none"
    /\ path' = Append(path, "ExtractFailed")
    /\ waited' = 0
    /\ UNCHANGED ready
    /\ pc = "returned"
    /\ IsFailure(result)
    /\ NextLink("extract_failed")
    /\ attempts' = 0
    /\ sleeps' = 0
    /\ UNCHANGED <<file, df_existing, submitted_links, links, max_retries,
                   ctx, session, run>>
    /\ UNCHANGED <<dfAtIter, fileAtIter, fileAtStart, dfAtLoad, extracted,
                   driven, lastFlushed, prevUnconfirmed, prevFailed,
                   flushedAtKill>>

\* metadata is a record: the try block is entered
EnterTry ==
    /\ UNCHANGED pages
    /\ fetched' = "none"
    /\ path' = Append(path, "Extracted")
    /\ waited' = 0
    /\ UNCHANGED ready
    /\ pc = "returned"
    /\ ~IsFailure(result)
    /\ pc' = "drive"
    /\ step' = 1
    /\ attempt' = 1
    /\ attempts' = 0
    /\ sleeps' = 0
    /\ UNCHANGED <<file, df_existing, submitted_links, links, idx,
                   max_retries, result, conf, ctx, session, run>>
    /\ UNCHANGED <<dfAtIter, fileAtIter, fileAtStart, dfAtLoad, outcome,
                   extracted, driven, lastFlushed, prevUnconfirmed,
                   prevFailed, flushedAtKill>>

\* the driver calls of the try block up to the confirmation check, in order
FormSteps ==
    <<"get", "wait_iframe", "switch_frame", "element_1", "element_2",
      "element_3", "element_6_1", "submit_form">>

\* the stages of an iteration when an exception reaches the except
\* clause: a row written before the exception stays written
OnRaise(p) ==
    IF p # <<>> /\ p[Len(p)] = "Persisted" THEN p
    ELSE Append(p, "SubmitError")

\* one driver call of the try block: it returns, or it raises and control
\* passes to the except clause
DriveStep ==
    /\ UNCHANGED pages
    /\ UNCHANGED fetched
    /\ UNCHANGED <<ready, waited>>
    /\ pc = "drive"
    /\ driven' = driven \cup {idx}
    /\ \E ok \in BOOLEAN :
         IF ok
         THEN /\ ctx' = IF FormSteps[step] = "switch_frame" THEN "frame"
                        ELSE ctx
              /\ IF step < Len(FormSteps)
                 THEN step' = step + 1 /\ pc' = "drive"
                 ELSE step' = step /\ pc' = "confirm"
              /\ UNCHANGED path
         ELSE /\ pc' = "except"
              /\ path' = OnRaise(path)
              /\ UNCHANGED <<ctx, step>>
    /\ UNCHANGED <<file, df_existing, submitted_links, links, idx,
                   max_retries, attempt, result, conf, session, run>>
    /\ UNCHANGED <<dfAtIter, fileAtIter, fileAtStart, dfAtLoad, outcome,
                   extracted, attempts, sleeps, lastFlushed, prevUnconfirmed,
                   prevFailed, flushedAtKill>>

\* faulty variant of Persist: the new row is put in front of the table
PersistFirst(df, md) ==
    <<[URL |-> md.URL, Case_Number |-> md.Case_Number,
       Title |-> md.Title, Date |-> md.Date,
       Updated |-> md.Updated, Abstract |-> md.Abstract,
       Main_Author |-> md.Main_Author, Status |-> "Requested"]>> \o df

\* metadata["Status"] = "Requested"; pd.concat([df_existing, ...])
Persist(df, md) ==
    Append(df, [URL |-> md.URL, Case_Number |-> md.Case_Number,
                Title |-> md.Title, Date |-> md.Date,
                Updated |-> md.Updated, Abstract |-> md.Abstract,
                Main_Author |-> md.Main_Author, Status |-> "Requested"])

\* faulty variant of ShouldPersist: the record is kept whatever the page says
ShouldPersistAlways(present) == TRUE

\* if "Thank you for submitting your request" in driver.page_source
ShouldPersist(present) == present

\* the confirmation check: page_source is read (or raises); with the phrase
\* present the record is appended to the table
Confirm ==
    /\ UNCHANGED pages
    /\ UNCHANGED fetched
    /\ UNCHANGED <<ready, waited>>
    /\ pc = "confirm"
    /\ \/ \E present \in BOOLEAN :
            /\ conf' = IF present THEN "present" ELSE "absent"
            /\ path' = IF present THEN Append(path, "Confirmed") ELSE path
            /\ IF ShouldPersist(present)
               THEN /\ df_existing' = Persist(df_existing, result[1])
                    /\ pc' = "flush"
               ELSE /\ pc' = "reset"
                    /\ UNCHANGED df_existing
       \/ /\ pc' = "except"
          /\ path' = OnRaise(path)
          /\ UNCHANGED <<conf, df_existing>>
    /\ UNCHANGED <<file, submitted_links, links, idx, max_retries, attempt,
                   result, step, ctx, session, run>>
    /\ UNCHANGED histVars

\* df_existing.to_csv(OUTPUT_FILE, index=False), first half: the file is
\* opened for writing, which truncates it
FlushOpen ==
    /\ UNCHANGED pages
    /\ UNCHANGED fetched
    /\ UNCHANGED <<ready, path, waited>>
    /\ pc = "flush"
    /\ file' = EmptyFile
    /\ pc' = "flush_write"
    /\ UNCHANGED <<df_existing, submitted_links, links, idx, max_retries,
                   attempt, result, step, conf, ctx, session, run>>
    /\ UNCHANGED histVars

\* to_csv, second half: the table is written and the file closed
FlushWrite ==
    /\ UNCHANGED pages
    /\ UNCHANGED fetched
    /\ path' = Append(path, "Persisted")
    /\ UNCHANGED <<ready, waited>>
    /\ pc = "flush_write"
    /\ file' = to_csv(df_existing)
    /\ lastFlushed' = file'.rows
    /\ pc' = "reset"
    /\ UNCHANGED <<df_existing, submitted_links, links, idx, max_retries,
                   attempt, result, step, conf, ctx, session, run>>
    /\ UNCHANGED <<dfAtIter, fileAtIter, fileAtStart, dfAtLoad, outcome,
                   extracted, driven, attempts, sleeps, prevUnconfirmed,
                   prevFailed, flushedAtKill>>

\* faulty variant of default_content: the context is left as it is
default_content_skipped(c) == c

\* driver.switch_to.default_content(): the context after the call
default_content(c) == "top"

\* how an iteration that ended in the except clause is recorded
KindOnRaise(c) == IF c = "present" THEN "confirmed_error" ELSE "error"

\* how an iteration that left the try block normally is recorded
KindOnReturn(c) == IF c = "present" THEN "confirmed" ELSE "unconfirmed"

\* driver.switch_to.default_content() at the end of the try block
ResetContext ==
    /\ UNCHANGED pages
    /\ UNCHANGED fetched
    /\ UNCHANGED <<ready, waited>>
    /\ pc = "reset"
    /\ \/ /\ ctx' = default_content(ctx)
          /\ NextLink(KindOnReturn(conf))
          /\ UNCHANGED path
       \/ /\ pc' = "except"
          /\ path' = OnRaise(path)
          /\ UNCHANGED <<ctx, outcome, idx, result, attempt, step, conf>>
    /\ UNCHANGED <<file, df_existing, submitted_links, links, max_retries,
                   session, run>>
    /\ UNCHANGED <<dfAtIter, fileAtIter, fileAtStart, dfAtLoad, extracted,
                   driven, attempts, sleeps, lastFlushed, prevUnconfirmed,
                   prevFailed, flushedAtKill>>

\* except Exception: print, driver.switch_to.default_content(), continue;
\* an exception raised by the call in the handler is caught by nothing and
\* ends the script
ExceptHandler ==
    /\ UNCHANGED pages
    /\ UNCHANGED fetched
    /\ UNCHANGED <<ready, path, waited>>
    /\ pc = "except"
    /\ \/ /\ ctx' = default_content(ctx)
          /\ NextLink(KindOnRaise(conf))
       \/ /\ pc' = "aborted"
          /\ outcome' = Append(outcome, KindOnRaise(conf))
          /\ UNCHANGED <<ctx, idx, result, attempt, step, conf>>
    /\ UNCHANGED <<file, df_existing, submitted_links, links, max_retries,
                   session, run>>
    /\ UNCHANGED <<dfAtIter, fileAtIter, fileAtStart, dfAtLoad, extracted,
                   driven, attempts, sleeps, lastFlushed, prevUnconfirmed,
                   prevFailed, flushedAtKill>>

\* driver.quit() and the final print, after the last link
Quit ==
    /\ UNCHANGED pages
    /\ UNCHANGED fetched
    /\ UNCHANGED <<ready, path, waited>>
    /\ pc = "loop"
    /\ idx > Len(links)
    /\ session' = "quit"
    /\ pc' = "done"
    /\ UNCHANGED <<file, df_existing, submitted_links, links, idx,
                   max_retries, attempt, result, step, conf, ctx, run>>
    /\ UNCHANGED histVars

\* ------------------------------------------------- termination and reruns
Running == pc \notin {"done", "aborted", "crashed"}

ConfirmedKinds == {"confirmed", "confirmed_error"}
FailedKinds == {"extract_failed", "error", "unconfirmed", "confirmed_error"}

\* URLs whose confirmation check returned true in this run
ConfirmedUrls ==
    {links[i] : i \in {j \in 1..Len(outcome) : outcome[j] \in ConfirmedKinds}}
    \cup (IF conf = "present" /\ idx <= Len(links) THEN {links[idx]} ELSE {})

\* URLs with an iteration of this run that ended in a failure
FailedUrls ==
    {links[i] : i \in {j \in 1..Len(outcome) : outcome[j] \in FailedKinds}}

\* URLs with an iteration of this run that was not a skip
ProcessedUrls ==
    {links[i] : i \in {j \in 1..Len(outcome) : outcome[j] # "skipped"}}

\* the process is terminated from outside, wherever it is: what it held in
\* memory is gone, the file stays as it is
Kill ==
    /\ UNCHANGED pages
    /\ fetched' = "none"
    /\ ready' = "pending"
    /\ path' = <<>>
    /\ waited' = 0
    /\ Running
    /\ pc' = "crashed"
    /\ flushedAtKill' = UrlSet(lastFlushed)
    /\ prevUnconfirmed' = ProcessedUrls \ ConfirmedUrls
    /\ prevFailed' = FailedUrls
    /\ links' = <<>>
    /\ df_existing' = <<>>
    /\ submitted_links' = {}
    /\ idx' = 1
    /\ max_retries' = DefaultMaxRetries
    /\ attempt' = 1
    /\ result' = None
    /\ step' = 1
    /\ conf' = "none"
    /\ ctx' = "top"
    /\ fileAtStart' = file
    /\ dfAtLoad' = <<>>
    /\ outcome' = <<>>
    /\ extracted' = {}
    /\ driven' = {}
    /\ dfAtIter' = <<>>
    /\ fileAtIter' = file
    /\ attempts' = 0
    /\ sleeps' = 0
    /\ lastFlushed' = <<>>
    /\ UNCHANGED <<file, session, run>>

\* the script is started again, with some list, on the file as it was left
StartRun ==
    /\ UNCHANGED pages
    /\ fetched' = "none"
    /\ ready' = "pending"
    /\ path' = <<>>
    /\ waited' = 0
    /\ ~Running
    /\ run < MaxRuns
    /\ \E l \in CASE_LINKS_TO_DOWNLOAD :
         /\ links' = l
         /\ run' = run + 1
         /\ df_existing' = <<>>
         /\ submitted_links' = {}
         /\ idx' = 1
         /\ pc' = "load"
         /\ max_retries' = DefaultMaxRetries
         /\ attempt' = 1
         /\ result' = None
         /\ step' = 1
         /\ conf' = "none"
         /\ ctx' = "top"
         /\ session' = "none"
         /\ fileAtStart' = file
         /\ dfAtLoad' = <<>>
         /\ outcome' = <<>>
         /\ extracted' = {}
         /\ driven' = {}
         /\ dfAtIter' = <<>>
         /\ fileAtIter' = file
         /\ attempts' = 0
         /\ sleeps' = 0
         /\ lastFlushed' = file.rows
    /\ IF pc = "crashed"
       THEN UNCHANGED <<prevUnconfirmed, prevFailed>>
       ELSE /\ prevUnconfirmed' = ProcessedUrls \ ConfirmedUrls
            /\ prevFailed' = FailedUrls
    /\ UNCHANGED <<file, flushedAtKill>>

Next ==
    \/ Load
    \/ Setup
    \/ SkipLink
    \/ CallExtract
    \/ ExtractAttempt
    \/ ExtractFailed
    \/ EnterTry
    \/ DriveStep
    \/ Confirm
    \/ FlushOpen
    \/ FlushWrite
    \/ ResetContext
    \/ ExceptHandler
    \/ Quit
    \/ Kill
    \/ StartRun

Spec == Init /\ [][Next]_vars

\* ---------------------------------- extract_case_data on its own
\* <<>> for an element the page does not have, else the element's text
Optional(texts) == {<<>>} \cup {<<t>> : t \in texts}

\* the pages a URL can have
CasePages ==
    [h1 : {<<t>> : t \in TitleTexts},
     citation : Optional(CitationTexts),
     date_text : Optional(SampleDateTexts),
     abstract : Optional(AbstractTexts),
     author : Optional(AuthorTexts)]

\* the state at the call of extract_case_data, outside a run of the script
CallStart ==
    /\ pc = "extract"
    /\ idx = 1
    /\ attempt = 1
    /\ attempts = 0
    /\ sleeps = 0
    /\ result = None
    /\ extracted = {1}
    /\ file = NoFile
    /\ df_existing = <<>>
    /\ submitted_links = {}
    /\ step = 1
    /\ conf = "none"
    /\ ctx = "top"
    /\ session = "none"
    /\ run = 1
    /\ fileAtStart = NoFile
    /\ dfAtLoad = <<>>
    /\ outcome = <<>>
    /\ driven = {}
    /\ dfAtIter = <<>>
    /\ fileAtIter = NoFile
    /\ lastFlushed = <<>>
    /\ prevUnconfirmed = {}
    /\ prevFailed = {}
    /\ flushedAtKill = {}
    /\ ready = "pending"
    /\ path = <<"Pending">>
    /\ waited = 0
    /\ fetched = "none"

\* a call of extract_case_data(url, max_retries) with any url, any
\* max_retries >= 1 and any page of the url
InitExtract ==
    /\ \E u \in URLs, p \in CasePages :
         /\ links = <<u>>
         /\ pages = [x \in URLs |-> IF x = u THEN p ELSE BarePage("")]
    /\ max_retries \in 1..MaxRetriesBound
    /\ CallStart

NextExtract == ExtractAttempt

SpecExtract == InitExtract /\ [][NextExtract]_vars

\* ------------------------------------------ the date text on its own
\* pieces date texts are put together from
DateChunks ==
    {MonthYear, RevisedNote, RevisedOpen, <<")">>, <<" ">>, <<"x">>, <<"7">>}

\* the texts made of at most n pieces
RECURSIVE DateTextsOf(_)
DateTextsOf(n) ==
    IF n = 0 THEN {<<>>}
    ELSE DateTextsOf(n - 1)
         \cup {t \o c : t \in DateTextsOf(n - 1), c \in DateChunks}

DateTexts == DateTextsOf(MaxChunks)

\* a call of extract_case_data, with the default arguments, for a page
\* whose date element has any text of DateTexts
InitParse ==
    /\ \E t \in DateTexts :
         /\ links = <<"u1">>
         /\ pages = [x \in URLs |->
                        IF x = "u1"
                        THEN [BarePage("Case A") EXCEPT !.date_text = <<t>>]
                        ELSE BarePage("")]
    /\ max_retries = DefaultMaxRetries
    /\ CallStart

SpecParse == InitParse /\ [][NextExtract]_vars

\* ============================================================ properties
\* the URL column of a sequence of rows
UrlsOf(rows) == [i \in 1..Len(rows) |-> rows[i].URL]

\* the URLs with a row in the file the run found
StoreUrlsAtStart == {fileAtStart.rows[i].URL : i \in 1..Len(fileAtStart.rows)}

\* the links of the first n finished iterations whose confirmation check
\* returned true, in list order
RECURSIVE ConfirmedSeq(_)
ConfirmedSeq(n) ==
    IF n = 0 THEN <<>>
    ELSE IF outcome[n] \in ConfirmedKinds
         THEN Append(ConfirmedSeq(n - 1), links[n])
         ELSE ConfirmedSeq(n - 1)

\* the iteration that has just ended, ended as kind
JustEnded(kind) ==
    /\ pc = "loop"
    /\ outcome # <<>>
    /\ outcome[Len(outcome)] = kind

StoreAsAtIter == df_existing = dfAtIter /\ file = fileAtIter

\* C1: a URL with a row in the file when the run starts is never handed to
\* the extractor nor to a form-driving call in that run, and when every
\* link of the list is such a URL the table and the file are, at every
\* point of the run and at its end, what they were at its start.
C1_Idempotency ==
    /\ \A i \in extracted \cup driven : links[i] \notin StoreUrlsAtStart
    /\ (/\ pc # "load"
        /\ \A i \in 1..Len(links) : links[i] \in StoreUrlsAtStart)
       => (df_existing = dfAtLoad /\ file = fileAtStart)

C1_Witness ==
    /\ pc = "done"
    /\ links = <<"u1", "u2">>
    /\ outcome = <<"skipped", "skipped">>
    /\ StoreUrlsAtStart = {"u1", "u2"}
    /\ file = fileAtStart

\* C2: the store never holds two rows with the same URL and status
\* Requested, whatever the lists of the runs were (the first run starts
\* without a file).
C2_UniqueRequested ==
    \A i, j \in 1..Len(file.rows) :
        (/\ i # j
         /\ file.rows[i].Status = "Requested"
         /\ file.rows[j].Status = "Requested")
        => file.rows[i].URL # file.rows[j].URL

C4_RetryBound ==
    /\ attempts <= max_retries
    /\ (pc = "returned" /\ result = None)
       => (attempts = max_retries /\ sleeps = max_retries)
    /\ (pc = "returned" /\ result # None)
       => (attempts = attempt /\ sleeps = attempts - 1)
    /\ pc = "extract" => (attempts = attempt - 1 /\ sleeps = attempts)

C4_Witness ==
    /\ pc = "returned"
    /\ result = None
    /\ max_retries = 2
    /\ attempts = 2

\* C5: an iteration whose try block ran to its end with the confirmation
\* phrase absent leaves the table and the file as they were when the
\* iteration began, and the loop goes on to the next link.
C5_ConfirmationGating ==
    /\ JustEnded("unconfirmed") => (StoreAsAtIter /\ idx = Len(outcome) + 1)
    /\ (outcome # <<>> /\ outcome[Len(outcome)] = "unconfirmed")
       => pc # "aborted"

C5_Witness ==
    /\ JustEnded("unconfirmed")
    /\ links = <<"u1", "u2">>
    /\ idx = 2
    /\ 1 \in driven

\* the kinds of an iteration in which a call of the try block raised
RaiseKinds == {"error", "confirmed_error"}

\* C6: when a call of the try block raises for the link at position i, the
\* links after i are still processed, the link at i gets no row, and at the
\* end of the run the file holds, after the rows it started with, a row for
\* exactly the links whose confirmation check returned true.
C6_BatchResilience ==
    (\E i \in 1..Len(outcome) : outcome[i] \in RaiseKinds)
    => /\ pc # "aborted"
       /\ pc = "done" => Len(outcome) = Len(links)
       /\ (pc = "loop" /\ outcome[Len(outcome)] \in RaiseKinds)
          => StoreAsAtIter
       /\ pc = "done"
          => UrlsOf(file.rows) =
                UrlsOf(fileAtStart.rows) \o ConfirmedSeq(Len(outcome))

\* C7: when extract_case_data has used up its attempts it returns None
\* (nothing is raised), no form-driving call is made in that iteration, the
\* table and the file are as they were when the iteration began, and the
\* loop goes on to the next link.
C7_ExtractionFailureIsolated ==
    /\ (pc = "returned" /\ result = None) => attempts = max_retries
    /\ pc \in {"drive", "confirm", "flush", "flush_write", "reset", "except"}
       => result # None
    /\ \A i \in 1..Len(outcome) :
          outcome[i] = "extract_failed" => i \notin driven
    /\ JustEnded("extract_failed")
       => (StoreAsAtIter /\ idx = Len(outcome) + 1)
    /\ (outcome # <<>> /\ outcome[Len(outcome)] = "extract_failed")
       => pc # "aborted"

C7_Witness ==
    /\ JustEnded("extract_failed")
    /\ links = <<"u1", "u2">>
    /\ idx = 2
    /\ extracted = {1}
    /\ driven = {}

\* C8: after the process was terminated, a later run makes no form-driving
\* call for a URL whose row had been flushed before the termination, and
\* finds every such row in the file when it starts.
C8_CrashSafety ==
    (flushedAtKill # {} /\ pc # "crashed")
    => /\ \A i \in driven : links[i] \notin flushedAtKill
       /\ pc = "load" => flushedAtKill \subseteq UrlSet(file.rows)

\* C9 as stated: a URL with an iteration of the previous run that ended in
\* extraction failure, interaction error or unconfirmed submission is not in
\* submitted_links of this run, and is handed to the extractor when the
\* loop reaches it.
C9_RetryableAnyFailure ==
    /\ prevFailed \cap submitted_links = {}
    /\ \A i \in 1..Len(outcome) : links[i] \in prevFailed => i \in extracted

\* C9: a URL that the previous run processed and for which no confirmation
\* check of that run returned true is not in submitted_links of this run,
\* and is handed to the extractor when the loop reaches it.
C9_RetryableUnconfirmed ==
    /\ prevUnconfirmed \cap submitted_links = {}
    /\ \A i \in 1..Len(outcome) :
          links[i] \in prevUnconfirmed => i \in extracted

C9_Witness ==
    /\ run = 2
    /\ prevUnconfirmed = {"u1"}
    /\ prevFailed = {"u1"}
    /\ fileAtStart.exists
    /\ links = <<"u2", "u1">>
    /\ outcome = <<"skipped">>
    /\ pc = "extract"
    /\ extracted = {2}

\* C10: a record returned by extract_case_data, and so a row appended by
\* the run, has a title that is not empty.
C10_TitleNonEmpty ==
    /\ result # None => result[1].Title # ""
    /\ \A i \in (Len(dfAtLoad) + 1)..Len(df_existing) :
          df_existing[i].Title # ""

\* the rows the table got since start-up
RowsAppended == SubSeq(df_existing, Len(dfAtLoad) + 1, Len(df_existing))

\* C11: the links are worked through in list order, one at a time: when an
\* operation has been made for a position, every earlier position is
\* finished and no later position has been touched; and the rows appended
\* in the run are in the table and in the written file in the order of
\* their links in the list.
C11_SequentialOrder ==
    /\ \A i \in extracted \cup driven :
          /\ i <= idx
          /\ i <= Len(links)
          /\ \A j \in 1..(i - 1) : j <= Len(outcome)
    /\ Len(outcome) \in {idx - 1, idx}
    /\ Len(outcome) = idx => pc = "aborted"
    /\ pc # "crashed" =>
          UrlsOf(RowsAppended) =
              ConfirmedSeq(Len(outcome))
              \o (IF conf = "present" /\ Len(outcome) = idx - 1
                  THEN <<links[idx]>> ELSE <<>>)
    /\ pc \in {"loop", "done"} =>
          UrlsOf(file.rows) = UrlsOf(fileAtStart.rows) \o UrlsOf(RowsAppended)

C11_Witness ==
    /\ pc = "done"
    /\ links = <<"u2", "u1">>
    /\ outcome = <<"confirmed", "confirmed">>
    /\ extracted = {1, 2}
    /\ UrlsOf(file.rows) = <<"u2", "u1">>

\* C12: when the wait for the form page times out, the script has ended:
\* no link was tested against submitted_links, extract_case_data was not
\* called, no form-driving call was made, and the table and the file are
\* as start-up left them.
C12_FatalSetup ==
    ready = "no" =>
        /\ pc = "aborted"
        /\ idx = 1
        /\ path = <<>>
        /\ outcome = <<>>
        /\ extracted = {}
        /\ driven = {}
        /\ file = fileAtStart
        /\ df_existing = dfAtLoad

C12_Witness ==
    /\ ready = "no"
    /\ pc = "aborted"
    /\ links = <<"u2", "u1">>
    /\ UrlsOf(file.rows) = <<"u1">>

\* C13: once the form page was seen, the script, when it is left to run,
\* ends nowhere but after the last link, with every link of the list
\* processed: no failure of a single link ends the loop early.
C13_BatchCompletion ==
    (ready = "yes" /\ ~Running)
        => (pc = "done" /\ Len(outcome) = Len(links))

\* C14: at the start of every iteration of the loop, and until the
\* iteration's own switch into the iframe, the driver is in the top-level
\* context, however the iteration before it ended.
C14_ContextReset ==
    /\ pc \in {"loop", "extract", "returned", "done"} => ctx = "top"
    /\ (pc = "drive" /\ step <= 3) => ctx = "top"

C14_Witness ==
    /\ pc = "drive"
    /\ step = 1
    /\ idx = 2
    /\ outcome = <<"confirmed_error">>
    /\ ctx = "top"

\* the last iteration begun has ended, and path holds its stages
IterationEnded == pc \in {"loop", "done", "aborted"} /\ outcome # <<>>

\* the transitions the state machine of the orchestrator lists
ListedPaths ==
    {<<"Pending", "Skipped">>,
     <<"Pending", "ExtractFailed">>,
     <<"Pending", "Extracted", "SubmitError">>,
     <<"Pending", "Extracted", "Confirmed", "Persisted">>}

\* the form was driven without an exception and the phrase was absent
UnconfirmedPath == <<"Pending", "Extracted">>

C16_FixedBackoff ==
    /\ waited = sleeps * DefaultDelay
    /\ pc = "extract" => (attempts = attempt - 1 /\ sleeps = attempt - 1)
    /\ (pc = "returned" /\ result # None)
          => /\ attempts = attempt
             /\ sleeps = attempt - 1
             /\ waited = (attempt - 1) * DefaultDelay

C16_Witness ==
    /\ pc = "returned"
    /\ result # None
    /\ attempt = 3
    /\ sleeps = 2
    /\ waited = 2 * DefaultDelay

\* a is the beginning of b
IsPrefix(a, b) == Len(a) <= Len(b) /\ SubSeq(b, 1, Len(a)) = a

\* C17: the rows the table was loaded with stay at its head unchanged while
\* rows are appended, and whenever no to_csv is under way the file holds
\* the rows it had at the start of the run, unchanged and in order,
\* followed by the rows appended since.
C17_AppendOnly ==
    /\ IsPrefix(dfAtLoad, df_existing)
    /\ pc # "flush_write" => IsPrefix(fileAtStart.rows, file.rows)

\* C18: when the script has ended by itself, after the last link or by an
\* exception nothing caught, the webdriver session it created has been quit.
C18_SessionRelease ==
    (pc \in {"done", "aborted"} /\ session # "none") => session = "quit"

\* the page the call under way is about
ThePage == pages[links[idx]]

\* C19: when an attempt gets a document with the title element, the call
\* returns a record on that attempt, with no sleep and no further attempt
\* after it, whichever of the citation, date, abstract and author elements
\* the page lacks; the field of a lacking element, and of a citation or
\* date text that matches no pattern, is the empty string.
C19_OptionalElements ==
    fetched = "page" =>
        /\ pc = "returned"
        /\ result # None
        /\ attempts = attempt
        /\ sleeps = attempts - 1
        /\ ThePage.citation = <<>> => result[1].Case_Number = <<>>
        /\ ThePage.date_text = <<>>
              => (result[1].Date = <<>> /\ result[1].Updated = <<>>)
        /\ ThePage.abstract = <<>> => result[1].Abstract = ""
        /\ ThePage.author = <<>> => result[1].Main_Author = ""
        /\ (/\ ThePage.citation # <<>>
            /\ \A i \in 1..Len(ThePage.citation[1]) :
                  ~CaseNumberAt(ThePage.citation[1], i))
              => result[1].Case_Number = <<>>
        /\ (/\ ThePage.date_text # <<>>
            /\ MonthYearAt(StripText(ThePage.date_text[1]), 1) = 0)
              => result[1].Date = <<>>
        /\ result[1].Title = Strip(ThePage.h1[1])

C19_Witness ==
    /\ fetched = "page"
    /\ ThePage = BarePage("Case A")
    /\ attempt = 2
    /\ result # None
    /\ result[1].Case_Number = <<>>
    /\ result[1].Abstract = ""

\* p is one or more letters, a blank and four digits
IsMonthYear(p) ==
    \E k \in 1..Len(p) :
        /\ Len(p) = k + 5
        /\ \A j \in 1..k : IsLetter(p[j])
        /\ p[k + 1] = " "
        /\ \A j \in (k + 2)..(k + 5) : IsDigit(p[j])

\* the trimmed date text of the page
DateStr == StripText(ThePage.date_text[1])

\* the beginnings of DateStr that are a month and a year
LeadingMonthYears ==
    {p \in {SubSeq(DateStr, 1, n) : n \in 1..Len(DateStr)} : IsMonthYear(p)}

\* <<i, j>> with a revision annotation from position i to position j
Annotations ==
    {ij \in (1..Len(DateStr)) \X (1..Len(DateStr)) :
        /\ ij[2] - ij[1] >= Len(RevisedOpen) + 1
        /\ SubSeq(DateStr, ij[1], ij[1] + Len(RevisedOpen) - 1) = RevisedOpen
        /\ DateStr[ij[2]] = ")"
        /\ IsMonthYear(SubSeq(DateStr, ij[1] + Len(RevisedOpen), ij[2] - 1))}

\* C20: the Date of the record returned is the month and year the trimmed
\* date text begins with, and empty when it begins with none; its Updated
\* is non-empty exactly when the text has a "(Revised <month> <year>)"
\* annotation somewhere, and is then the month and year inside the first
\* one; neither depends on the other.
C20_DateParsing ==
    (fetched = "page" /\ ThePage.date_text # <<>>) =>
        /\ result[1].Date # <<>> <=> LeadingMonthYears # {}
        /\ result[1].Date # <<>> => result[1].Date \in LeadingMonthYears
        /\ result[1].Updated # <<>> <=> Annotations # {}
        /\ result[1].Updated # <<>> =>
              \E ij \in Annotations :
                  /\ \A hk \in Annotations : ij[1] <= hk[1]
                  /\ result[1].Updated =
                        SubSeq(DateStr, ij[1] + Len(RevisedOpen), ij[2] - 1)

C20_Witness ==
    /\ fetched = "page"
    /\ ThePage.date_text = <<<<" ">> \o RevisedNote \o MonthYear>>
    /\ result[1].Date = <<>>
    /\ result[1].Updated # <<>>

====
